---- MODULE Spec2Model ----
(***************************************************************************)
(* Model of src/src/app.ts: an express application that accepts one        *)
(* uploaded file (POST /upload), resizes images with sharp, writes the     *)
(* result to a storage bucket and answers retrieval requests               *)
(* (GET /file/:fileId, GET /file-by-name/:name, GET /files, GET /health).  *)
(*                                                                         *)
(* Every handler is an async function: it runs synchronously up to an      *)
(* await (or up to the registration of stream listeners) and is resumed    *)
(* by the event loop later.  Each such run is one action, so the handlers  *)
(* of concurrent requests interleave exactly at these points.              *)
(***************************************************************************)
EXTENDS Naturals, Sequences, FiniteSets, TLC

\* Number of requests the server receives in one behaviour.
MaxReqs == 3

Reqs == 1..MaxReqs

(***************************************************************************)
(* Strings the code inspects character by character are sequences of       *)
(* characters, so that String.prototype.includes is a real substring test. *)
(***************************************************************************)
ImagePng == <<"i","m","a","g","e","/","p","n","g">>
ImageJpeg == <<"i","m","a","g","e","/","j","p","e","g">>
ApplicationPdf == <<"a","p","p","l","i","c","a","t","i","o","n","/","p","d","f">>
TextPlain == <<"t","e","x","t","/","p","l","a","i","n">>
\* the registered type of .dmg disk images
AppleDiskImage ==
  <<"a","p","p","l","i","c","a","t","i","o","n","/","x","-","a","p","p","l","e",
    "-","d","i","s","k","i","m","a","g","e">>

\* Original file names: two names that differ only in case.
FileNames == {"cat.png", "Cat.png"}

\* req.file as multer leaves it: undefined when the form carries no file.
NoFile == [mimetype |-> <<>>, originalname |-> "", buffer |-> ""]

\* The files clients upload.  buffer is the file's content: "pixels" is
\* content sharp can decode as an image, "junk" is content it cannot.  The
\* set holds two storable files of the same name, storable files whose names
\* differ only in case, an undecodable image, a type that is neither image
\* nor PDF, and a non-image type whose name contains "image".
Files ==
  { [mimetype |-> ImagePng,       originalname |-> "cat.png", buffer |-> "pixels"],
    [mimetype |-> ImageJpeg,      originalname |-> "cat.png", buffer |-> "pixels"],
    [mimetype |-> ImageJpeg,      originalname |-> "Cat.png", buffer |-> "junk"],
    [mimetype |-> ApplicationPdf, originalname |-> "Cat.png", buffer |-> "junk"],
    [mimetype |-> TextPlain,      originalname |-> "cat.png", buffer |-> "junk"],
    [mimetype |-> AppleDiskImage, originalname |-> "Cat.png", buffer |-> "pixels"] }

\* String.prototype.includes
includes(s, sub) ==
  \E i \in 1..(Len(s) + 1) :
     /\ i + Len(sub) - 1 <= Len(s)
     /\ SubSeq(s, i, i + Len(sub) - 1) = sub

\* sharp(buffer).resize(300, 300).png().toBuffer() resolves for decodable
\* input and rejects otherwise.
Decodable(buffer) == buffer = "pixels"

sharp(buffer) == <<"png", 300, 300, buffer>>

SharpError == "Input buffer contains unsupported image format"

\* The branch of the upload handler a file takes (lines 49-70).
IsImage(file) == includes(file.mimetype, <<"i","m","a","g","e">>)

IsPdf(file) == file.mimetype = ApplicationPdf

\* uuidv4(): a token that was never issued before; issued counts the tokens
\* handed out so far.
uuidv4(issued) == issued + 1

\* A key taken from the original file name instead of the identifier
\* (keys of a namespace apart from the identifiers).
BlobKeyByName(fileId, file) ==
  IF file.originalname = "cat.png" THEN 2 * MaxReqs + 1 ELSE 2 * MaxReqs + 2

\* A key that is not the identifier the client is told: the identifier
\* with a suffix, a key of another namespace.
BlobKeySuffixed(fileId, file) == fileId + MaxReqs

\* bucket.file(`${fileId}`): the object's key is the identifier.
BlobKey(fileId, file) == fileId

\* The metadata handed to createWriteStream.
BlobMetadata(file, contentType) ==
  [contentType |-> file.mimetype, name |-> file.originalname]

\* encodeURIComponent leaves the characters of a uuid unchanged.
PublicUrl(name) == <<"https://firebasestorage.googleapis.com/v0/b/", name, "?alt=media">>

SignedUrl(name) == <<"signed", name, "03-09-2491">>

VARIABLES
  running,   \* the node process is alive
  store,     \* the bucket: key -> [contentType, name, bytes]
  issued,    \* number of identifiers uuidv4 has returned
  req        \* per request: where its handler stands, its locals, its response

vars == <<running, store, issued, req>>

NoResp == [status |-> 0, body |-> ""]

Idle ==
  [kind |-> "none", pc |-> "idle",
   \* POST /upload
   file |-> NoFile, fileId |-> 0, processedFileBuffer |-> <<>>, contentType |-> <<>>,
   sharpCalled |-> FALSE, writeInitiated |-> FALSE, signal |-> "none",
   \* GET /file/:fileId (fileId above is its parameter), GET /file-by-name/:name
   fileName |-> "", files |-> <<>>, found |-> 0, metadata |-> <<>>,
   metadataCalled |-> FALSE, signCalled |-> FALSE, failed |-> "",
   resp |-> NoResp]

Init ==
  /\ running = TRUE
  /\ store = << >>
  /\ issued = 0
  /\ req = [r \in Reqs |-> Idle]

\* Requests are numbered in the order they arrive.
Arrives(r) ==
  /\ running
  /\ req[r].pc = "idle"
  /\ \A q \in Reqs : q < r => req[q].pc # "idle"

\* The handler of request r is suspended at the given point.
At(r, pc) == running /\ req[r].pc = pc

\* The bucket after the object is written under key.
Put(s, key, object) ==
  [k \in DOMAIN s \cup {key} |-> IF k = key THEN object ELSE s[k]]

(***************************************************************************)
(* POST /upload                                                            *)
(***************************************************************************)

\* A handler that answers as soon as the buffer is handed to the stream.
ResponseAtEnd(r) ==
  [status |-> 200,
   body |-> [fileId |-> req[r].fileId,
             fileUrl |-> PublicUrl(req[r].fileId),
             message |-> "File uploaded and processed successfully"]]

\* Line 99 ends the try block: after blobStream.end the handler returns
\* without sending anything; the response is left to the listeners.
ResponseAfterEnd(r) == req[r].resp

\* Line 49: no file attached; the throw is caught on line 100.
UploadNoFile(r) ==
  /\ Arrives(r)
  /\ issued' = issued + 1
  /\ req' = [req EXCEPT ![r].kind = "upload",
                        ![r].fileId = uuidv4(issued),
                        ![r].pc = "done",
                        ![r].resp = [status |-> 500, body |-> "File is not provided."]]
  /\ UNCHANGED <<running, store>>

\* Lines 56-61: the mimetype contains "image"; the handler awaits sharp.
UploadImage(r) ==
  /\ Arrives(r)
  /\ \E file \in Files :
       /\ IsImage(file)
       /\ req' = [req EXCEPT ![r].kind = "upload",
                             ![r].file = file,
                             ![r].fileId = uuidv4(issued),
                             ![r].sharpCalled = TRUE,
                             ![r].pc = "sharp"]
  /\ issued' = issued + 1
  /\ UNCHANGED <<running, store>>

\* Lines 62 and 73-99: sharp resolved; the write stream is created, the
\* listeners are registered and the buffer is handed to the stream.
SharpResolves(r) ==
  /\ At(r, "sharp")
  /\ Decodable(req[r].file.buffer)
  /\ req' = [req EXCEPT ![r].processedFileBuffer = sharp(req[r].file.buffer),
                        ![r].contentType = ImagePng,
                        ![r].writeInitiated = TRUE,
                        ![r].resp = ResponseAfterEnd(r),
                        ![r].pc = "writing"]
  /\ UNCHANGED <<running, store, issued>>

\* sharp rejected; the rejection is caught on line 100.
SharpRejects(r) ==
  /\ At(r, "sharp")
  /\ ~Decodable(req[r].file.buffer)
  /\ req' = [req EXCEPT ![r].pc = "done",
                        ![r].resp = [status |-> 500, body |-> SharpError]]
  /\ UNCHANGED <<running, store, issued>>

\* Lines 63-66 and 73-99: a PDF goes to the stream unchanged.
UploadPdf(r) ==
  /\ Arrives(r)
  /\ \E file \in Files :
       /\ ~IsImage(file)
       /\ IsPdf(file)
       /\ req' = [req EXCEPT ![r].kind = "upload",
                             ![r].file = file,
                             ![r].fileId = uuidv4(issued),
                             ![r].processedFileBuffer = file.buffer,
                             ![r].contentType = ApplicationPdf,
                             ![r].writeInitiated = TRUE,
                             ![r].resp = ResponseAfterEnd(r),
                             ![r].pc = "writing"]
  /\ issued' = issued + 1
  /\ UNCHANGED <<running, store>>

\* Lines 67-70: any other type; the throw is caught on line 100.
UploadUnsupported(r) ==
  /\ Arrives(r)
  /\ \E file \in Files :
       /\ ~IsImage(file)
       /\ ~IsPdf(file)
       /\ req' = [req EXCEPT ![r].kind = "upload",
                             ![r].file = file,
                             ![r].fileId = uuidv4(issued),
                             ![r].pc = "done",
                             ![r].resp = [status |-> 500, body |-> "Unsupported file type"]]
  /\ issued' = issued + 1
  /\ UNCHANGED <<running, store>>

\* The bucket completes the write: the object exists and the stream emits
\* "finish".
StoreWriteCompletes(r) ==
  /\ At(r, "writing")
  /\ store' = Put(store, BlobKey(req[r].fileId, req[r].file),
                  BlobMetadata(req[r].file, req[r].contentType)
                    @@ [bytes |-> req[r].processedFileBuffer])
  /\ req' = [req EXCEPT ![r].signal = "finish", ![r].pc = "finish"]
  /\ UNCHANGED <<running, issued>>

\* The bucket fails the write: no object, and the stream emits "error".
StoreWriteFails(r) ==
  /\ At(r, "writing")
  /\ req' = [req EXCEPT ![r].signal = "error", ![r].pc = "error"]
  /\ UNCHANGED <<running, store, issued>>

\* Lines 87-97: the "finish" listener answers the request.
OnFinish(r) ==
  /\ At(r, "finish")
  /\ req' = [req EXCEPT ![r].pc = "done",
                        ![r].resp = [status |-> 200,
                                     body |-> [fileId |-> req[r].fileId,
                                               fileUrl |-> PublicUrl(BlobKey(req[r].fileId, req[r].file)),
                                               message |-> "File uploaded and processed successfully"]]]
  /\ UNCHANGED <<running, store, issued>>

\* Lines 83-85: the "error" listener throws.  It runs from the stream's
\* emit, long after the handler's try block was left, so nothing catches
\* the exception: the process terminates and the request is never answered.
OnError(r) ==
  /\ At(r, "error")
  /\ running' = FALSE
  /\ req' = [req EXCEPT ![r].pc = "threw"]
  /\ UNCHANGED <<store, issued>>

Upload(r) ==
  \/ UploadNoFile(r)
  \/ UploadImage(r)
  \/ SharpResolves(r)
  \/ SharpRejects(r)
  \/ UploadPdf(r)
  \/ UploadUnsupported(r)
  \/ StoreWriteCompletes(r)
  \/ StoreWriteFails(r)
  \/ OnFinish(r)
  \/ OnError(r)

(***************************************************************************)
(* The bucket's read operations.  Each is a remote call: it resolves with  *)
(* the value below or rejects.                                             *)
(***************************************************************************)

\* An existence check that is skipped.
existsAlways(s, key) == TRUE

\* file.exists()
exists(s, key) == key \in DOMAIN s

\* bucket.getFiles(): the File objects of the bucket, in an order the
\* bucket chooses on each call.
getFiles(s) ==
  { [i \in 1..Cardinality(DOMAIN s) |->
       [name |-> order[i],
        metadata |-> [contentType |-> s[order[i]].contentType,
                      metadata |-> [name |-> s[order[i]].name]]]] :
    order \in { o \in [1..Cardinality(DOMAIN s) -> DOMAIN s] :
                  \A i, j \in DOMAIN o : o[i] = o[j] => i = j } }

\* A scan that keeps the last match.
findLast(files, fileName) ==
  IF \E i \in DOMAIN files : files[i].metadata.metadata.name = fileName
    THEN CHOOSE i \in DOMAIN files :
           /\ files[i].metadata.metadata.name = fileName
           /\ \A j \in (i + 1)..Len(files) : files[j].metadata.metadata.name # fileName
    ELSE 0

\* files.find((file) => file.metadata?.metadata?.name === fileName): the
\* index of the first match, 0 for undefined.
find(files, fileName) ==
  IF \E i \in DOMAIN files : files[i].metadata.metadata.name = fileName
    THEN CHOOSE i \in DOMAIN files :
           /\ files[i].metadata.metadata.name = fileName
           /\ \A j \in 1..(i - 1) : files[j].metadata.metadata.name # fileName
    ELSE 0

\* Line 130
extension(contentType) == IF contentType = ApplicationPdf THEN ".pdf" ELSE ".png"

\* The catch blocks of the two retrieval handlers (lines 132-137, 165-170).
RetrievalError(call) ==
  [status |-> 500, body |-> [message |-> "Error retrieving file", error |-> call]]

NotFound == [status |-> 404, body |-> [message |-> "File not found"]]

(***************************************************************************)
(* GET /file/:fileId                                                       *)
(***************************************************************************)

\* The identifiers a client asks for: those issued so far and one that no
\* upload was given.
Asked == 1..(issued + 1)

\* Lines 107-114: the object does not exist.
GetFileNotFound(r) ==
  /\ Arrives(r)
  /\ \E fileId \in Asked :
       /\ ~exists(store, fileId)
       /\ req' = [req EXCEPT ![r].kind = "file",
                             ![r].fileId = fileId,
                             ![r].pc = "done",
                             ![r].resp = NotFound]
  /\ UNCHANGED <<running, store, issued>>

\* Lines 107-117: the object exists; the handler awaits getMetadata.
GetFileExists(r) ==
  /\ Arrives(r)
  /\ \E fileId \in Asked :
       /\ exists(store, fileId)
       /\ req' = [req EXCEPT ![r].kind = "file",
                             ![r].fileId = fileId,
                             ![r].metadataCalled = TRUE,
                             ![r].pc = "getMetadata"]
  /\ UNCHANGED <<running, store, issued>>

\* file.exists() rejects; caught on line 132.
GetFileExistsRejects(r) ==
  /\ Arrives(r)
  /\ \E fileId \in Asked :
       req' = [req EXCEPT ![r].kind = "file",
                          ![r].fileId = fileId,
                          ![r].failed = "exists",
                          ![r].pc = "done",
                          ![r].resp = RetrievalError("exists")]
  /\ UNCHANGED <<running, store, issued>>

\* Lines 117-123: getMetadata resolves (it rejects for an object the bucket
\* does not hold); the handler awaits getSignedUrl.
GetMetadataResolves(r) ==
  /\ At(r, "getMetadata")
  /\ req' = IF req[r].fileId \in DOMAIN store
              THEN [req EXCEPT ![r].metadata = [contentType |-> store[req[r].fileId].contentType],
                               ![r].signCalled = TRUE,
                               ![r].pc = "getSignedUrl"]
              ELSE [req EXCEPT ![r].failed = "getMetadata",
                               ![r].pc = "done",
                               ![r].resp = RetrievalError("getMetadata")]
  /\ UNCHANGED <<running, store, issued>>

GetMetadataRejects(r) ==
  /\ At(r, "getMetadata")
  /\ req' = [req EXCEPT ![r].failed = "getMetadata",
                        ![r].pc = "done",
                        ![r].resp = RetrievalError("getMetadata")]
  /\ UNCHANGED <<running, store, issued>>

\* Lines 125-131
GetSignedUrlResolves(r) ==
  /\ At(r, "getSignedUrl")
  /\ req' = [req EXCEPT ![r].pc = "done",
                        ![r].resp = [status |-> 200,
                                     body |-> [fileId |-> req[r].fileId,
                                               fileUrl |-> SignedUrl(req[r].fileId),
                                               contentType |-> req[r].metadata.contentType,
                                               extension |-> extension(req[r].metadata.contentType)]]]
  /\ UNCHANGED <<running, store, issued>>

GetSignedUrlRejects(r) ==
  /\ At(r, "getSignedUrl")
  /\ req' = [req EXCEPT ![r].failed = "getSignedUrl",
                        ![r].pc = "done",
                        ![r].resp = RetrievalError("getSignedUrl")]
  /\ UNCHANGED <<running, store, issued>>

GetFile(r) ==
  \/ GetFileNotFound(r)
  \/ GetFileExists(r)
  \/ GetFileExistsRejects(r)
  \/ GetMetadataResolves(r)
  \/ GetMetadataRejects(r)
  \/ GetSignedUrlResolves(r)
  \/ GetSignedUrlRejects(r)

(***************************************************************************)
(* GET /file-by-name/:name                                                 *)
(***************************************************************************)

\* Lines 142-152: no listed file carries the name.
ByNameNotFound(r) ==
  /\ Arrives(r)
  /\ \E fileName \in FileNames, files \in getFiles(store) :
       /\ find(files, fileName) = 0
       /\ req' = [req EXCEPT ![r].kind = "file-by-name",
                             ![r].fileName = fileName,
                             ![r].files = files,
                             ![r].pc = "done",
                             ![r].resp = NotFound]
  /\ UNCHANGED <<running, store, issued>>

\* Lines 142-158: a file is found; the handler awaits its getSignedUrl.
ByNameFound(r) ==
  /\ Arrives(r)
  /\ \E fileName \in FileNames, files \in getFiles(store) :
       /\ find(files, fileName) # 0
       /\ req' = [req EXCEPT ![r].kind = "file-by-name",
                             ![r].fileName = fileName,
                             ![r].files = files,
                             ![r].found = find(files, fileName),
                             ![r].signCalled = TRUE,
                             ![r].pc = "getSignedUrlByName"]
  /\ UNCHANGED <<running, store, issued>>

\* bucket.getFiles() rejects; caught on line 165.
ByNameGetFilesRejects(r) ==
  /\ Arrives(r)
  /\ \E fileName \in FileNames :
       req' = [req EXCEPT ![r].kind = "file-by-name",
                          ![r].fileName = fileName,
                          ![r].failed = "getFiles",
                          ![r].pc = "done",
                          ![r].resp = RetrievalError("getFiles")]
  /\ UNCHANGED <<running, store, issued>>

\* Lines 160-164
ByNameSignedUrlResolves(r) ==
  /\ At(r, "getSignedUrlByName")
  /\ LET file == req[r].files[req[r].found]
     IN req' = [req EXCEPT ![r].pc = "done",
                           ![r].resp = [status |-> 200,
                                        body |-> [fileName |-> req[r].fileName,
                                                  fileUrl |-> SignedUrl(file.name),
                                                  contentType |-> file.metadata.contentType]]]
  /\ UNCHANGED <<running, store, issued>>

ByNameSignedUrlRejects(r) ==
  /\ At(r, "getSignedUrlByName")
  /\ req' = [req EXCEPT ![r].failed = "getSignedUrl",
                        ![r].pc = "done",
                        ![r].resp = RetrievalError("getSignedUrl")]
  /\ UNCHANGED <<running, store, issued>>

GetFileByName(r) ==
  \/ ByNameNotFound(r)
  \/ ByNameFound(r)
  \/ ByNameGetFilesRejects(r)
  \/ ByNameSignedUrlResolves(r)
  \/ ByNameSignedUrlRejects(r)

(***************************************************************************)
(* GET /files and GET /health                                              *)
(***************************************************************************)

\* Lines 176-183
ListFiles(r) ==
  /\ Arrives(r)
  /\ \E files \in getFiles(store) :
       req' = [req EXCEPT ![r].kind = "files",
                          ![r].pc = "done",
                          ![r].resp = [status |-> 200,
                                       body |-> [i \in DOMAIN files |-> PublicUrl(files[i].name)]]]
  /\ UNCHANGED <<running, store, issued>>

\* Lines 184-186
ListFilesRejects(r) ==
  /\ Arrives(r)
  /\ req' = [req EXCEPT ![r].kind = "files",
                        ![r].failed = "getFiles",
                        ![r].pc = "done",
                        ![r].resp = [status |-> 500, body |-> "getFiles"]]
  /\ UNCHANGED <<running, store, issued>>

\* Lines 39-41
Health(r) ==
  /\ Arrives(r)
  /\ req' = [req EXCEPT ![r].kind = "health",
                        ![r].pc = "done",
                        ![r].resp = [status |-> 200,
                                     body |-> [status |-> "up", message |-> "API is running"]]]
  /\ UNCHANGED <<running, store, issued>>

Next ==
  \E r \in Reqs :
    \/ Upload(r)
    \/ GetFile(r)
    \/ GetFileByName(r)
    \/ ListFiles(r)
    \/ ListFilesRejects(r)
    \/ Health(r)

Spec == Init /\ [][Next]_vars

(***************************************************************************)
(* The retrieval handlers write neither the bucket nor the identifier      *)
(* counter nor another request's record.  The specifications below leave   *)
(* out the handlers a property does not mention, which lets more requests  *)
(* run concurrently within the same search.                                *)
(***************************************************************************)

\* The server under upload requests only.
NextUpload == \E r \in Reqs : Upload(r)

SpecUpload == Init /\ [][NextUpload]_vars

\* The server under upload and GET /file/:fileId requests.
NextFile == \E r \in Reqs : Upload(r) \/ GetFile(r)

SpecFile == Init /\ [][NextFile]_vars

\* The server under upload and GET /file-by-name/:name requests.
NextByName == \E r \in Reqs : Upload(r) \/ GetFileByName(r)

SpecByName == Init /\ [][NextByName]_vars
(***************************************************************************)
(* Vocabulary of the properties                                            *)
(***************************************************************************)

IsUpload(r) == req[r].kind = "upload"

Answered(r) == req[r].resp.status # 0

\* An image subtype: a type of the form image/...
IsImageSubtype(mimetype) ==
  /\ Len(mimetype) > 6
  /\ SubSeq(mimetype, 1, 6) = <<"i","m","a","g","e","/">>

\* The stream of upload r has emitted "finish".
Finished(r) == IsUpload(r) /\ req[r].signal = "finish"

\* The "error" listener of upload r has run.
ErrorDelivered(r) == IsUpload(r) /\ req[r].signal = "error" /\ req[r].pc # "error"

\* No upload has created an object under the identifier.
NeverCreated(fileId) == \A u \in Reqs : ~(Finished(u) /\ req[u].fileId = fileId)

\* The index of the first file of a listing recorded under exactly this
\* name, 0 when there is none.
FirstNamed(files, fileName) ==
  LET named == {i \in DOMAIN files : files[i].metadata.metadata.name = fileName}
  IN IF named = {} THEN 0 ELSE CHOOSE i \in named : \A j \in named : i <= j

(***************************************************************************)
(* C1: for every upload whose declared type is an image subtype, the       *)
(* object written to the bucket carries the content type image/png.        *)
(***************************************************************************)
C1_StoredImageIsPng ==
  \A r \in Reqs :
    (Finished(r) /\ IsImageSubtype(req[r].file.mimetype))
      => /\ req[r].fileId \in DOMAIN store
         /\ store[req[r].fileId].contentType = ImagePng

(***************************************************************************)
(* C2: GET /file/{fileId} with the identifier a successful upload returned *)
(* answers {image/png, .png} for an uploaded image and                     *)
(* {application/pdf, .pdf} for an uploaded PDF.                            *)
(***************************************************************************)
C2_RoundTrip ==
  \A u, g \in Reqs :
    ( /\ IsUpload(u)
      /\ req[u].resp.status = 200
      /\ req[g].kind = "file"
      /\ req[g].resp.status = 200
      /\ req[g].fileId = req[u].resp.body.fileId )
      => /\ IsImageSubtype(req[u].file.mimetype)
              => /\ req[g].resp.body.contentType = ImagePng
                 /\ req[g].resp.body.extension = ".png"
         /\ req[u].file.mimetype = ApplicationPdf
              => /\ req[g].resp.body.contentType = ApplicationPdf
                 /\ req[g].resp.body.extension = ".pdf"

(***************************************************************************)
(* C3: once the write stream's error signal has been delivered, the upload *)
(* request has been answered with status 500.                              *)
(***************************************************************************)
C3_WriteErrorAnswered ==
  \A r \in Reqs : ErrorDelivered(r) => req[r].resp.status = 500

(***************************************************************************)
(* C4: no error escapes a handler: the process is running in every state,  *)
(* and every handler that has stopped has answered its request.            *)
(***************************************************************************)
C4_NoErrorEscapes ==
  /\ running
  /\ \A r \in Reqs : req[r].pc \in {"done", "threw"} => Answered(r)

(***************************************************************************)
(* C5: an upload whose declared type is neither an image subtype nor       *)
(* application/pdf fails with the unsupported-type error, never reaches    *)
(* sharp and never starts a write.                                         *)
(***************************************************************************)
C5_UnsupportedRejected ==
  \A r \in Reqs :
    ( /\ IsUpload(r)
      /\ req[r].file # NoFile
      /\ ~IsImageSubtype(req[r].file.mimetype)
      /\ req[r].file.mimetype # ApplicationPdf )
      => /\ ~req[r].sharpCalled
         /\ ~req[r].writeInitiated
         /\ req[r].fileId \notin DOMAIN store
         /\ Answered(r) => /\ req[r].resp.status = 500
                           /\ req[r].resp.body = "Unsupported file type"

(***************************************************************************)
(* C6: an upload is answered 200 only after its stream emitted "finish",   *)
(* and nothing is answered between starting the write and the stream's     *)
(* finish or error signal.                                                 *)
(***************************************************************************)
C6_NoResponseBeforeFinish ==
  \A r \in Reqs :
    IsUpload(r)
      => /\ req[r].resp.status = 200 => req[r].signal = "finish"
         /\ (req[r].writeInitiated /\ req[r].signal = "none") => ~Answered(r)

\* One upload was answered after its finish signal while another upload's
\* write is still in flight, unanswered.
C6_Witness ==
  \E a, b \in Reqs :
    /\ IsUpload(a) /\ req[a].resp.status = 200 /\ req[a].signal = "finish"
    /\ IsUpload(b) /\ req[b].writeInitiated /\ req[b].signal = "none" /\ ~Answered(b)

(***************************************************************************)
(* C7: any two uploads have distinct identifiers, every finished write     *)
(* created an object of its own, and no step changes or removes an object  *)
(* the bucket already holds.                                               *)
(***************************************************************************)
C7_DistinctObjects ==
  /\ [](\A a, b \in Reqs :
          (IsUpload(a) /\ IsUpload(b) /\ a # b) => req[a].fileId # req[b].fileId)
  /\ [](/\ \A r \in Reqs : Finished(r) => req[r].fileId \in DOMAIN store
        /\ Cardinality(DOMAIN store) = Cardinality({r \in Reqs : Finished(r)}))
  /\ [][\A k \in DOMAIN store : k \in DOMAIN store' /\ store'[k] = store[k]]_vars

\* Two uploads of the same bytes under the same name, started before either
\* write finished, both answered, with two objects in the bucket.
C7_Witness ==
  \E a, b \in Reqs :
    /\ a # b
    /\ IsUpload(a) /\ IsUpload(b)
    /\ req[a].file = req[b].file
    /\ req[a].resp.status = 200 /\ req[b].resp.status = 200
    /\ req[a].fileId # req[b].fileId
    /\ {req[a].fileId, req[b].fileId} \subseteq DOMAIN store

(***************************************************************************)
(* C8: an upload answered with an error left no object under its           *)
(* identifier; an upload answered with success left exactly one, under the *)
(* identifier it returned; an upload without a file fails and starts no    *)
(* write.                                                                  *)
(***************************************************************************)
C8_AllOrNothing ==
  /\ \A r \in Reqs :
       IsUpload(r)
         => /\ req[r].resp.status = 500
                 => /\ req[r].fileId \notin DOMAIN store
                    /\ ~req[r].writeInitiated
            /\ req[r].resp.status = 200
                 => /\ req[r].resp.body.fileId = req[r].fileId
                    /\ req[r].fileId \in DOMAIN store
            /\ req[r].file = NoFile
                 => /\ req[r].resp.status = 500
                    /\ ~req[r].writeInitiated
  /\ Cardinality(DOMAIN store) = Cardinality({r \in Reqs : Finished(r)})

\* One upload without a file, one rejected by sharp and one stored, all
\* answered.
C8_Witness ==
  \E a, b, c \in Reqs :
    /\ IsUpload(a) /\ req[a].file = NoFile /\ req[a].resp.status = 500
    /\ IsUpload(b) /\ req[b].sharpCalled /\ req[b].resp.status = 500
    /\ IsUpload(c) /\ req[c].resp.status = 200
    /\ DOMAIN store = {req[c].fileId}

(***************************************************************************)
(* C9: GET /file/{fileId} for an identifier no upload created answers 404, *)
(* without fetching metadata or signing a URL, unless the existence check  *)
(* itself failed.                                                          *)
(***************************************************************************)
C9_NeverCreatedIsNotFound ==
  \A r \in Reqs :
    (req[r].kind = "file" /\ NeverCreated(req[r].fileId) /\ req[r].failed # "exists")
      => /\ req[r].resp.status = 404
         /\ ~req[r].metadataCalled
         /\ ~req[r].signCalled

\* After a successful upload and a successful retrieval of it, a request
\* for an identifier that was never created is answered 404.
C9_Witness ==
  \E u, g, r \in Reqs :
    /\ IsUpload(u) /\ req[u].resp.status = 200
    /\ req[g].kind = "file" /\ req[g].resp.status = 200
    /\ req[r].kind = "file" /\ NeverCreated(req[r].fileId)
    /\ req[r].resp.status = 404

\* The answer of a by-name request whose two bucket calls both resolved.
ByNameAnswerIsFirstMatch(r) ==
  LET files == req[r].files
      first == FirstNamed(files, req[r].fileName)
  IN /\ \A i \in DOMAIN files :
          /\ files[i].name \in DOMAIN store
          /\ files[i].metadata.metadata.name = store[files[i].name].name
     /\ IF first = 0
          THEN req[r].resp.status = 404
          ELSE /\ req[r].resp.status = 200
               /\ req[r].resp.body.fileName = req[r].fileName
               /\ req[r].resp.body.fileUrl = SignedUrl(files[first].name)
               /\ req[r].resp.body.contentType = store[files[first].name].contentType

(***************************************************************************)
(* C10, as stated: GET /file-by-name/{name} answers 404 exactly when no    *)
(* listed object is recorded under exactly that name, and otherwise        *)
(* returns the descriptor of the first listed object recorded under it.    *)
(***************************************************************************)
C10_AsStated ==
  \A r \in Reqs :
    (req[r].kind = "file-by-name" /\ Answered(r)) => ByNameAnswerIsFirstMatch(r)

(***************************************************************************)
(* C10, amended: provided the listing and the URL signing do not fail,     *)
(* GET /file-by-name/{name} answers 404 when no object of the call's       *)
(* listing is recorded under exactly that name, and otherwise returns the  *)
(* descriptor of the first such object of the listing; no step of the      *)
(* handler changes the bucket.                                             *)
(***************************************************************************)
C10_FirstMatchUnlessStoreFails ==
  /\ [](\A r \in Reqs :
          (req[r].kind = "file-by-name" /\ Answered(r) /\ req[r].failed = "")
            => ByNameAnswerIsFirstMatch(r))
  /\ [][\A r \in Reqs :
          (req'[r].kind = "file-by-name" /\ req'[r] # req[r]) => store' = store]_vars

\* The bucket holds two objects recorded under the same name and the
\* request was answered with the one listed first, which is not the one
\* uploaded first.
C10_Witness ==
  \E r \in Reqs :
    /\ req[r].kind = "file-by-name"
    /\ req[r].resp.status = 200
    /\ Len(req[r].files) = 2
    /\ \A i \in DOMAIN req[r].files :
         req[r].files[i].metadata.metadata.name = req[r].fileName
    /\ req[r].files[1].name > req[r].files[2].name
    /\ req[r].resp.body.fileUrl = SignedUrl(req[r].files[1].name)
====
